---------------------------- MODULE Spec2Model ----------------------------
(***************************************************************************)
(* Model of libtest/src/data/formatter.py: read ./US/cities.txt, group the *)
(* city names by state code, and write ./tmp.txt with every state's cities *)
(* ordered from the longest name to the shortest.                          *)
(*                                                                         *)
(* A string is a sequence of one-character strings; a file is a record     *)
(* [exists, data] whose data is the flat character content, newlines       *)
(* included.                                                               *)
(***************************************************************************)
EXTENDS Naturals, Sequences, FiniteSets

VARIABLES
    pc,         \* position of the script: start, parse, groups, cities, done, failed
    run,        \* number of the current invocation of the script
    inFile,     \* ./US/cities.txt
    outFile,    \* ./tmp.txt
    outBefore,  \* ./tmp.txt as it was when the current invocation started
    content,    \* the list `content` (line 11)
    states,     \* the dict `states`, as its items() in insertion order
    idx,        \* position of `for line in content`
    grp,        \* position of `for k, v in states.items()`
    v,          \* the local `v` of the writer loop (the sorted group)
    ci,         \* position of `for city in v`
    failure     \* the exception that ended the run, or "none"

vars == <<pc, run, inFile, outFile, outBefore, content, states, idx, grp, v, ci, failure>>

----------------------------------------------------------------------------
(* Bounds of the model *)

MaxRecords == 3     \* lines of a well-formed input file
MaxChars == 6       \* characters of an arbitrary input file
MaxRuns == 2        \* invocations of the script in a row

----------------------------------------------------------------------------
(* Characters and files *)

NL == "\n"
SEP == ";"
Whitespace == {" ", NL}

File(d) == [exists |-> TRUE, data |-> d]
NoFile == [exists |-> FALSE, data |-> <<>>]

SeqsUpTo(S, n) == UNION {[1..m -> S] : m \in 0..n}

RECURSIVE Concat(_)
Concat(ss) == IF ss = <<>> THEN <<>> ELSE Head(ss) \o Concat(Tail(ss))

Reverse(s) == [i \in 1..Len(s) |-> s[Len(s) + 1 - i]]

----------------------------------------------------------------------------
(* The library functions the script calls, computed as Python computes them *)

\* Faulty variant: the text is cut after every newline as data.split("\n")
\* cuts it, so an empty text and the text after the last newline are lines.
RECURSIVE readlines_split(_)
readlines_split(d) ==
    IF \E i \in 1..Len(d) : d[i] = NL
    THEN LET n == CHOOSE i \in 1..Len(d) :
                      d[i] = NL /\ \A j \in 1..(i - 1) : d[j] # NL
         IN  <<SubSeq(d, 1, n)>> \o readlines_split(SubSeq(d, n + 1, Len(d)))
    ELSE <<d>>

\* f.readlines(): the lines of the file, each with its terminating newline
\* (the last line has none when the file does not end in one).
RECURSIVE readlines(_)
readlines(d) ==
    IF d = <<>> THEN <<>>
    ELSE LET n == IF \E i \in 1..Len(d) : d[i] = NL
                  THEN CHOOSE i \in 1..Len(d) :
                           d[i] = NL /\ \A j \in 1..(i - 1) : d[j] # NL
                  ELSE Len(d)
         IN  <<SubSeq(d, 1, n)>> \o readlines(SubSeq(d, n + 1, Len(d)))

RECURSIVE lstrip(_)
lstrip(s) == IF s # <<>> /\ Head(s) \in Whitespace THEN lstrip(Tail(s)) ELSE s

RECURSIVE rstrip(_)
rstrip(s) ==
    IF s # <<>> /\ s[Len(s)] \in Whitespace
    THEN rstrip(SubSeq(s, 1, Len(s) - 1))
    ELSE s

\* Faulty variant: c.rstrip(), only the trailing whitespace is stripped.
strip_trailing(s) == rstrip(s)

\* c.strip(): both ends are stripped.
strip(s) == lstrip(rstrip(s))

\* Faulty variant: line.split(";", 1), the line is cut at its first separator only.
split_first(s) ==
    IF \E i \in 1..Len(s) : s[i] = SEP
    THEN LET n == CHOOSE i \in 1..Len(s) :
                      s[i] = SEP /\ \A j \in 1..(i - 1) : s[j] # SEP
         IN  <<SubSeq(s, 1, n - 1), SubSeq(s, n + 1, Len(s))>>
    ELSE <<s>>

\* line.split(";"): the fields between every two separators.
RECURSIVE split(_)
split(s) ==
    IF \E i \in 1..Len(s) : s[i] = SEP
    THEN LET n == CHOOSE i \in 1..Len(s) :
                      s[i] = SEP /\ \A j \in 1..(i - 1) : s[j] # SEP
         IN  <<SubSeq(s, 1, n - 1)>> \o split(SubSeq(s, n + 1, Len(s)))
    ELSE <<s>>

\* Faulty variant: the element goes before the elements of equal key.
insort_left(s, x) ==
    LET p == Cardinality({i \in 1..Len(s) : Len(s[i]) < Len(x)})
    IN  SubSeq(s, 1, p) \o <<x>> \o SubSeq(s, p + 1, Len(s))

\* list.sort inserts each element after the elements whose key is not larger:
\* an ascending stable sort by len.
insort(s, x) ==
    LET p == Cardinality({i \in 1..Len(s) : Len(s[i]) <= Len(x)})
    IN  SubSeq(s, 1, p) \o <<x>> \o SubSeq(s, p + 1, Len(s))

RECURSIVE sort_by_len(_)
sort_by_len(l) ==
    IF l = <<>> THEN <<>>
    ELSE insort(sort_by_len(SubSeq(l, 1, Len(l) - 1)), l[Len(l)])

\* Faulty variant: reverse=True is missing.
sorted_ascending(l) == sort_by_len(l)

\* Faulty variant: sorted ascending and then reversed, which reverses the ties.
sorted_ties_reversed(l) == Reverse(sort_by_len(l))

\* sorted(v, key=lambda x: len(x), reverse=True): CPython reverses the list,
\* sorts it ascending and stable, and reverses the result.
sorted(l) == Reverse(sort_by_len(Reverse(l)))

\* Faulty variant: states[code] = [], which empties the list of a key seen before.
setdefault_overwrite(d, key) ==
    IF \E i \in 1..Len(d) : d[i].k = key
    THEN [i \in 1..Len(d) |-> IF d[i].k = key THEN [k |-> key, v |-> <<>>] ELSE d[i]]
    ELSE Append(d, [k |-> key, v |-> <<>>])

\* Faulty variant: a new key goes to the front of the dict.
setdefault_front(d, key) ==
    IF \E i \in 1..Len(d) : d[i].k = key
    THEN d
    ELSE <<[k |-> key, v |-> <<>>]>> \o d

\* states.setdefault(code, []): a new key goes to the end of the dict.
setdefault(d, key) ==
    IF \E i \in 1..Len(d) : d[i].k = key
    THEN d
    ELSE Append(d, [k |-> key, v |-> <<>>])

\* states[code].append(name)
append(d, key, x) ==
    LET at == CHOOSE i \in 1..Len(d) : d[i].k = key
    IN  [d EXCEPT ![at].v = Append(@, x)]

\* f"{k};{city}\n"
fmt(key, city) == key \o <<SEP>> \o city \o <<NL>>

----------------------------------------------------------------------------
(* The input files and the earlier contents of ./tmp.txt the model draws *)

Codes == {<<"A">>, <<"B">>}
Names == {<<"x">>, <<"y">>, <<"x", "x">>}
RecordLines == {fmt(c, n) : c \in Codes, n \in Names}
RecordFiles == {Concat(ls) : ls \in SeqsUpTo(RecordLines, MaxRecords)}

Alphabet == {"A", SEP, " ", NL}
CharFiles == SeqsUpTo(Alphabet, MaxChars)

Inputs == {NoFile} \cup {File(d) : d \in RecordFiles \cup CharFiles}

OldLine == <<"B", SEP, "y", NL>>
OldLong == OldLine \o OldLine \o OldLine \o OldLine \o OldLine \o OldLine
OldFiles == {NoFile, File(OldLine), File(OldLong)}

----------------------------------------------------------------------------
(* The script *)

Init ==
    /\ pc = "start"
    /\ run = 1
    /\ inFile \in Inputs
    /\ outFile \in OldFiles
    /\ outBefore = outFile
    /\ content = <<>>
    /\ states = <<>>
    /\ idx = 0
    /\ grp = 0
    /\ v = <<>>
    /\ ci = 0
    /\ failure = "none"

\* Lines 9-11: open the input, read its lines, strip each.
Load ==
    /\ pc = "start"
    /\ inFile.exists
    /\ content' = [i \in 1..Len(readlines(inFile.data)) |->
                      strip(readlines(inFile.data)[i])]
    /\ idx' = 1
    /\ pc' = "parse"
    /\ UNCHANGED <<run, inFile, outFile, outBefore, states, grp, v, ci, failure>>

\* Line 9: open() raises when the input file is missing.
LoadFail ==
    /\ pc = "start"
    /\ ~inFile.exists
    /\ pc' = "failed"
    /\ failure' = "FileNotFoundError"
    /\ UNCHANGED <<run, inFile, outFile, outBefore, content, states, idx, grp, v, ci>>

\* Lines 14-17: one iteration of `for line in content`.
ParseLine ==
    /\ pc = "parse"
    /\ idx <= Len(content)
    /\ LET parts == split(content[idx])
       IN  /\ Len(parts) = 2
           /\ states' = append(setdefault(states, parts[1]), parts[1], parts[2])
    /\ idx' = idx + 1
    /\ UNCHANGED <<pc, run, inFile, outFile, outBefore, content, grp, v, ci, failure>>

\* Faulty variant: a line that does not unpack is skipped and the loop goes on.
ParseFail_skip ==
    /\ pc = "parse"
    /\ idx <= Len(content)
    /\ Len(split(content[idx])) # 2
    /\ idx' = idx + 1
    /\ UNCHANGED <<pc, run, inFile, outFile, outBefore, content, states, grp, v, ci, failure>>

\* Line 15: the unpacking `code, name = ...` raises unless there are two fields.
ParseFail ==
    /\ pc = "parse"
    /\ idx <= Len(content)
    /\ Len(split(content[idx])) # 2
    /\ pc' = "failed"
    /\ failure' = "ValueError"
    /\ UNCHANGED <<run, inFile, outFile, outBefore, content, states, idx, grp, v, ci>>

\* Faulty variant: open("./tmp.txt", "a") keeps what the file holds.
OpenOutput_append ==
    /\ pc = "parse"
    /\ idx > Len(content)
    /\ outFile' = File(outFile.data)
    /\ grp' = 1
    /\ pc' = "groups"
    /\ UNCHANGED <<run, inFile, outBefore, content, states, idx, v, ci, failure>>

\* Line 19: open("./tmp.txt", "w") creates the file or truncates it.
OpenOutput ==
    /\ pc = "parse"
    /\ idx > Len(content)
    /\ outFile' = File(<<>>)
    /\ grp' = 1
    /\ pc' = "groups"
    /\ UNCHANGED <<run, inFile, outBefore, content, states, idx, v, ci, failure>>

\* Line 19: open() raises when ./tmp.txt cannot be created or written.
OpenOutputFail ==
    /\ pc = "parse"
    /\ idx > Len(content)
    /\ pc' = "failed"
    /\ failure' = "OSError"
    /\ UNCHANGED <<run, inFile, outFile, outBefore, content, states, idx, grp, v, ci>>

\* Lines 20-21: the next item of states.items() and its sorted list.
SortGroup ==
    /\ pc = "groups"
    /\ grp <= Len(states)
    /\ v' = sorted(states[grp].v)
    /\ ci' = 1
    /\ pc' = "cities"
    /\ UNCHANGED <<run, inFile, outFile, outBefore, content, states, idx, grp, failure>>

\* Lines 22-23: one iteration of `for city in v`.
WriteCity ==
    /\ pc = "cities"
    /\ ci <= Len(v)
    /\ outFile' = [outFile EXCEPT !.data = @ \o fmt(states[grp].k, v[ci])]
    /\ ci' = ci + 1
    /\ UNCHANGED <<pc, run, inFile, outBefore, content, states, idx, grp, v, failure>>

\* Line 22: `for city in v` is exhausted; back to line 20.
EndGroup ==
    /\ pc = "cities"
    /\ ci > Len(v)
    /\ grp' = grp + 1
    /\ v' = <<>>
    /\ ci' = 0
    /\ pc' = "groups"
    /\ UNCHANGED <<run, inFile, outFile, outBefore, content, states, idx, failure>>

\* Line 20: states.items() is exhausted; the with block closes the file.
Close ==
    /\ pc = "groups"
    /\ grp > Len(states)
    /\ pc' = "done"
    /\ UNCHANGED <<run, inFile, outFile, outBefore, content, states, idx, grp, v, ci, failure>>

\* The script is run again with the ./tmp.txt it wrote as ./US/cities.txt.
Rerun ==
    /\ pc = "done"
    /\ run < MaxRuns
    /\ run' = run + 1
    /\ inFile' = outFile
    /\ outBefore' = outFile
    /\ content' = <<>>
    /\ states' = <<>>
    /\ idx' = 0
    /\ grp' = 0
    /\ pc' = "start"
    /\ UNCHANGED <<outFile, v, ci, failure>>

Next ==
    \/ Load
    \/ LoadFail
    \/ ParseLine
    \/ ParseFail
    \/ OpenOutput
    \/ OpenOutputFail
    \/ SortGroup
    \/ WriteCity
    \/ EndGroup
    \/ Close
    \/ Rerun

Spec == Init /\ [][Next]_vars

----------------------------------------------------------------------------
(* What the properties read off the files and the loaded lines.  These are  *)
(* stated on the text itself, independently of the functions above.        *)

\* The lines of a text without their newlines; an unterminated last line counts.
LineEnds(d) == {i \in 1..Len(d) : d[i] = NL}

NumLines(d) ==
    Cardinality(LineEnds(d)) + (IF d # <<>> /\ d[Len(d)] # NL THEN 1 ELSE 0)

NthEnd(d, n) ==
    IF n = 0 THEN 0
    ELSE IF n <= Cardinality(LineEnds(d))
         THEN CHOOSE i \in LineEnds(d) :
                  Cardinality({j \in LineEnds(d) : j < i}) = n - 1
         ELSE Len(d) + 1

TextLines(d) ==
    [n \in 1..NumLines(d) |-> SubSeq(d, NthEnd(d, n - 1) + 1, NthEnd(d, n) - 1)]

NumSeps(l) == Cardinality({i \in 1..Len(l) : l[i] = SEP})

\* The text before the first separator of a line, and the text after it.
PosSep(l) ==
    IF \E i \in 1..Len(l) : l[i] = SEP
    THEN CHOOSE i \in 1..Len(l) : l[i] = SEP /\ \A j \in 1..(i - 1) : l[j] # SEP
    ELSE Len(l) + 1

KeyOf(l) == SubSeq(l, 1, PosSep(l) - 1)
NameOf(l) == SubSeq(l, PosSep(l) + 1, Len(l))
Records(ls) == [i \in 1..Len(ls) |-> <<KeyOf(ls[i]), NameOf(ls[i])>>]

Bag(s) ==
    [x \in {s[i] : i \in 1..Len(s)} |-> Cardinality({i \in 1..Len(s) : s[i] = x})]

\* The elements of s at the positions P, in order.
At(s, P) ==
    [n \in 1..Cardinality(P) |->
        s[CHOOSE i \in P : Cardinality({j \in P : j < i}) = n - 1]]

\* The city names of the lines ls whose state code is key.
NamesOf(ls, key) == At(Records(ls), {i \in 1..Len(ls) : KeyOf(ls[i]) = key})

RECURSIVE TotalLen(_)
TotalLen(ls) == IF ls = <<>> THEN 0 ELSE Len(Head(ls)) + 1 + TotalLen(Tail(ls))

RawLines == TextLines(inFile.data)
OutLines == TextLines(outFile.data)
InRecords == Records(content)
OutRecords == Records(OutLines)
Writing == pc \in {"groups", "cities", "done"}

----------------------------------------------------------------------------
(* Properties *)

\* C1: when the run completes, the (state code, city name) pairs written to
\* the output file are, as a multiset, the pairs of the input lines, and the
\* output has as many lines as the input.
C1_SameRecords ==
    pc = "done" =>
        /\ Bag(OutRecords) = Bag(InRecords)
        /\ Len(OutLines) = Len(RawLines)

C1_Witness ==
    /\ pc = "done"
    /\ run = 1
    /\ Len(OutLines) >= 3
    /\ \E i, j \in 1..Len(OutLines) : OutRecords[i][1] # OutRecords[j][1]
    /\ outFile.data # inFile.data

\* C2: in the output of a completed run, of two lines of the same state the
\* earlier one has a city name at least as long as the later one.
C2_LongestFirst ==
    pc = "done" =>
        \A i, j \in 1..Len(OutLines) :
            (i < j /\ OutRecords[i][1] = OutRecords[j][1])
                => Len(OutRecords[i][2]) >= Len(OutRecords[j][2])

C2_Witness ==
    /\ pc = "done"
    /\ \E i, j \in 1..Len(content) :
           /\ i < j
           /\ InRecords[i][1] = InRecords[j][1]
           /\ Len(InRecords[i][2]) < Len(InRecords[j][2])

\* C3: the descending sort is stable: for every state and every length, the
\* names of that state and length come out in the order they came in.
C3_Stable ==
    pc = "done" =>
        \A key \in {InRecords[i][1] : i \in 1..Len(content)} :
            \A n \in {Len(InRecords[i][2]) : i \in 1..Len(content)} :
                SelectSeq(NamesOf(OutLines, key), LAMBDA r : Len(r[2]) = n)
                    = SelectSeq(NamesOf(content, key), LAMBDA r : Len(r[2]) = n)

C3_Witness ==
    /\ pc = "done"
    /\ \E i, j \in 1..Len(content) :
           /\ i < j
           /\ InRecords[i][1] = InRecords[j][1]
           /\ Len(InRecords[i][2]) = Len(InRecords[j][2])
           /\ InRecords[i][2] # InRecords[j][2]
    /\ outFile.data # inFile.data

\* C4: in the output of a completed run the lines of one state are one
\* contiguous block, and the blocks are in the order in which the state codes
\* first occur in the input.
C4_BlocksInFirstSeenOrder ==
    pc = "done" =>
        LET outKeys == [i \in 1..Len(OutLines) |-> OutRecords[i][1]]
            inKeys == [i \in 1..Len(content) |-> InRecords[i][1]]
        IN  At(outKeys, {i \in 1..Len(outKeys) : i = 1 \/ outKeys[i - 1] # outKeys[i]})
                = At(inKeys, {i \in 1..Len(inKeys) :
                                 \A j \in 1..(i - 1) : inKeys[j] # inKeys[i]})

C4_Witness ==
    /\ pc = "done"
    /\ \E i, j, l \in 1..Len(content) :
           /\ i < j /\ j < l
           /\ InRecords[i][1] = InRecords[l][1]
           /\ InRecords[i][1] # InRecords[j][1]

\* C5: when the input file is missing or one of its lines has no separator,
\* the run never opens the output file and the output file stays as it was;
\* the output file is opened only after every input line has been parsed.
C5_FailFast ==
    /\ (~inFile.exists \/ \E i \in 1..Len(RawLines) : NumSeps(RawLines[i]) = 0)
           => /\ pc \in {"start", "parse", "failed"}
              /\ failure \in {"none", "FileNotFoundError", "ValueError"}
              /\ outFile = outBefore
    /\ (Writing \/ failure = "OSError")
           => /\ inFile.exists
              /\ Len(content) = Len(RawLines)
              /\ idx = Len(content) + 1
    /\ outFile # outBefore => Writing

C5_Witness ==
    /\ pc = "failed"
    /\ failure = "ValueError"
    /\ idx >= 2
    /\ NumSeps(content[idx]) = 0
    /\ outBefore.exists
    /\ outFile = outBefore

\* C6 as stated: a line with two or more separators is split at the first one
\* and does not make the run fail, so a line that fails to parse has none.
C6_SplitOnFirstOnly ==
    (pc = "failed" /\ failure = "ValueError") => NumSeps(content[idx]) = 0

\* C6 as amended: the run accepts exactly the lines with one separator; the
\* state code of such a line is the text before the separator and the city
\* name the text after it, and the line is grouped under its state code and
\* written; a line with two or more separators makes the run fail as a line
\* with none, the output file untouched.
C6_ExactlyOneSeparator ==
    /\ (pc = "failed" /\ failure = "ValueError")
           => (NumSeps(content[idx]) # 1 /\ outFile = outBefore)
    /\ \A i \in 1..Len(content) : i < idx => NumSeps(content[i]) = 1
    /\ pc = "done" =>
           \A i \in 1..Len(content) :
               \E j \in 1..Len(OutLines) :
                   OutRecords[j] = <<KeyOf(content[i]), NameOf(content[i])>>
    /\ pc = "parse" =>
           LET parsed == SubSeq(content, 1, idx - 1)
           IN  /\ {states[g].k : g \in 1..Len(states)}
                      = {KeyOf(parsed[i]) : i \in 1..Len(parsed)}
               /\ \A g \in 1..Len(states) :
                      states[g].v
                          = [n \in 1..Len(NamesOf(parsed, states[g].k)) |->
                                NamesOf(parsed, states[g].k)[n][2]]

C6_Witness ==
    /\ pc = "failed"
    /\ failure = "ValueError"
    /\ NumSeps(content[idx]) >= 2
    /\ idx >= 2
    /\ states # <<>>

\* C7: when the output of a completed run is the input of a second run, the
\* second run does not fail on its input, and its output has for every state
\* the same sequence of city names as the first run's output.
C7_Idempotent ==
    run >= 2 =>
        /\ failure \notin {"FileNotFoundError", "ValueError"}
        /\ pc = "done" =>
               LET before == TextLines(outBefore.data)
               IN  \A key \in {KeyOf(OutLines[i]) : i \in 1..Len(OutLines)}
                              \cup {KeyOf(before[i]) : i \in 1..Len(before)} :
                       NamesOf(OutLines, key) = NamesOf(before, key)

C7_Witness ==
    /\ run = 2
    /\ pc = "done"
    /\ \E i, j \in 1..Len(OutLines) :
           /\ i < j
           /\ OutRecords[i][1] = OutRecords[j][1]
           /\ Len(OutRecords[i][2]) = Len(OutRecords[j][2])
           /\ OutRecords[i][2] # OutRecords[j][2]
    /\ \E i, j \in 1..Len(OutLines) : Len(OutRecords[i][2]) > Len(OutRecords[j][2])

\* C8: on an empty input file the run does not fail on its input, builds no
\* group, and leaves an output file that exists and is empty.
C8_EmptyInput ==
    (inFile.exists /\ inFile.data = <<>>) =>
        /\ failure \notin {"FileNotFoundError", "ValueError"}
        /\ content = <<>>
        /\ states = <<>>
        /\ pc # "cities"
        /\ Writing => (outFile.exists /\ outFile.data = <<>>)

C8_Witness ==
    /\ inFile.exists
    /\ inFile.data = <<>>
    /\ pc = "done"
    /\ run = 1
    /\ outBefore.data = OldLong
    /\ outFile.exists
    /\ outFile.data = <<>>

\* C9: after a completed run the output file holds exactly the lines made
\* from this run's input, whatever it held before.
C9_Overwritten ==
    pc = "done" =>
        /\ outFile.exists
        /\ Bag(OutLines) = Bag(content)
        /\ Len(outFile.data) = TotalLen(content)

C9_Witness ==
    /\ pc = "done"
    /\ run = 1
    /\ outBefore.data = OldLong
    /\ outFile.data # <<>>
    /\ Len(outFile.data) < Len(outBefore.data)

\* t is the line raw without the whitespace at the ends named.
Trimmed(raw, t, leading) ==
    \E a \in 0..Len(raw) : \E b \in a..Len(raw) :
        /\ t = SubSeq(raw, a + 1, b)
        /\ \A j \in 1..a : raw[j] \in Whitespace
        /\ \A j \in (b + 1)..Len(raw) : raw[j] \in Whitespace
        /\ b > a => raw[b] \notin Whitespace
        /\ IF leading THEN b > a => raw[a + 1] \notin Whitespace ELSE a = 0

\* C10 as stated: each loaded line is the raw line without its trailing
\* whitespace, with its leading whitespace kept.
C10_TrailingOnly ==
    (pc # "start" /\ inFile.exists) =>
        /\ Len(content) = Len(RawLines)
        /\ \A i \in 1..Len(content) : Trimmed(RawLines[i], content[i], FALSE)

\* C10 as amended: each loaded line is the raw line without its leading and
\* trailing whitespace and is otherwise unchanged; a blank line is loaded as
\* an empty line, at which the parser fails as at a line without a separator.
C10_BothEnds ==
    (pc # "start" /\ inFile.exists) =>
        /\ Len(content) = Len(RawLines)
        /\ \A i \in 1..Len(content) :
               /\ Trimmed(RawLines[i], content[i], TRUE)
               /\ content[i] = <<>> =>
                      /\ idx <= i
                      /\ pc \in {"parse", "failed"}
                      /\ (pc = "failed" /\ idx = i) => failure = "ValueError"

C10_Witness ==
    /\ pc = "done"
    /\ run = 1
    /\ \E i \in 1..Len(content) :
           /\ RawLines[i] # <<>>
           /\ RawLines[i][1] \in Whitespace
           /\ \E j \in 1..Len(OutLines) : OutLines[j] = content[i]

=============================================================================
